---- MODULE Spec2Model ----
(***************************************************************************)
(* jxl-migrate-cli.py: a directory of images is walked, every file is      *)
(* submitted to a ThreadPool, each task runs try_handle_file, and the main *)
(* thread joins the pool and prints the size report.                       *)
(*                                                                         *)
(* A file name is the sequence of the pieces str.split('.') yields, a path *)
(* is [root, name].  The file system is the function disk: path -> [size,  *)
(* mtime] whose domain is the set of existing paths.  The external tools   *)
(* (cjxl, dwebp, webpinfo) are opaque: their exit code and whether they    *)
(* wrote their output are chosen nondeterministically.                     *)
(*                                                                         *)
(* Two parts of the program are also modelled on their own:                *)
(* format_file_size applied to a byte count (SpecFormat), and              *)
(* print_thread_safe called by the pool threads (SpecPrint).  In a run     *)
(* (Spec, SpecTwice, FairSpec, SpecFlags) a printed line is added to log   *)
(* in one step.                                                            *)
(***************************************************************************)
EXTENDS Naturals, Sequences, FiniteSets, TLC

VARIABLES
    arguments,                  \* the arguments dictionary (l.184-193)
    disk,                       \* existing paths -> [size, mtime]
    filesize_before_conversion, \* global counter (l.32)
    filesize_after_conversion,  \* global counter (l.33)
    mainpc,                     \* position of run(): walk, join, report, done
    listing,                    \* what os.walk yields in this run (l.230)
    pending,                    \* files os.walk has not yielded yet
    taskqueue,                  \* the pool's queue of submitted tasks
    local,                      \* per task: where its pool thread is in handle_file, and
                                \* the local variables of that call
    run_no,                     \* 1 in the first program run, 2 in the second
    startdisk,                  \* history: the paths existing when this run began
    history,                    \* history, per task of this run: what happened
    calls,                      \* history: the external tool invocations of this run
    log,                        \* history: the lines printed by this run
    report,                     \* what the final report printed (l.236-243)
    size_in_bytes,              \* the argument of a format_file_size call (l.148)
    formatted,                  \* what that call returned
    print_lock,                 \* the value of the semaphore print_lock (l.155)
    printer                     \* per pool thread: where it is in print_thread_safe

\* the state of a format_file_size call and of print_thread_safe
formatvars == <<size_in_bytes, formatted>>
printvars == <<print_lock, printer>>

vars == <<arguments, disk, filesize_before_conversion, filesize_after_conversion,
          mainpc, listing, pending, taskqueue, local, run_no, startdisk,
          history, calls, log, report, formatvars, printvars>>

-----------------------------------------------------------------------------
(* Bounds of the model *)

\* largest --jobs value tried
MaxJobs == 2

\* largest number of files in the directory tree when the first run starts
MaxFiles == 3

\* largest number of lines one pool thread prints
MaxLines == 3

\* largest number of base-1024 digits of a byte count handed to
\* format_file_size: 6 digits reach 1024^5 and beyond
MaxDigits == 6

-----------------------------------------------------------------------------
(* Paths and the directory tree *)

\* Python's None: a path that is not set, or what a function returns that
\* ends without a return statement
None == [root |-> "", name |-> <<>>]

Path(root, name) == [root |-> root, name |-> name]

\* the files the tree may hold when the first run starts
Universe ==
    { Path("d", <<"a", "jpg">>),
      Path("d", <<"a", "PNG">>),
      Path("d", <<"c", "txt">>),
      Path("d/s", <<"b", "webp">>),
      Path("d/s", <<"b", "jxl">>) }

\* the files of a tree that holds every kind of image handle_file tells
\* apart, one of them empty
FlagUniverse ==
    { Path("d", <<"a", "jpg">>),
      Path("d", <<"a", "PNG">>),
      Path("d", <<"e", "JPEG">>),
      Path("d", <<"f", "apng">>),
      Path("d", <<"g", "gif">>),
      Path("d/s", <<"b", "webp">>) }

\* every path a walk may find, in the order os.walk lists them: top directory
\* "d" first, then its subdirectory "d/s"
WalkOrder ==
    << Path("d", <<"a", "jpg">>),
       Path("d", <<"a", "PNG">>),
       Path("d", <<"a", "jxl">>),
       Path("d", <<"c", "txt">>),
       Path("d", <<"e", "JPEG">>),
       Path("d", <<"f", "apng">>),
       Path("d", <<"g", "gif">>),
       Path("d/s", <<"b", "webp">>),
       Path("d/s", <<"b", "jxl">>) >>

Range(s) == {s[i] : i \in DOMAIN s}

\* size in bytes of the files present at start
SourceSize(p) ==
    CASE p.name = <<"a", "jpg">> -> 2
      [] p.name = <<"b", "webp">> -> 3
      [] p.name = <<"f", "apng">> -> 0
      [] OTHER -> 1

\* modification times: the files present at start are old, a file written
\* during the run gets the current time
OldTime == "old"
NowTime == "now"

\* str.lower() on the extensions that occur
Lower(s) ==
    CASE s = "PNG" -> "png"
      [] s = "JPG" -> "jpg"
      [] s = "JPEG" -> "jpeg"
      [] s = "WEBP" -> "webp"
      [] OTHER -> s

Last(s) == s[Len(s)]
Front(s) == SubSeq(s, 1, Len(s) - 1)

\* l.91: extension = filename.split('.')[-1].lower()
Extension(filename) == Lower(Last(filename))

\* l.93: os.path.join(root, filename)
FullPath(task) == Path(task.root, task.name)

\* l.102-103: '.'.join(filename.split('.')[:-1]), then root/<that> + '.jxl'
JxlFilename(task) ==
    Path(task.root,
         (IF Front(task.name) = <<>> THEN <<"">> ELSE Front(task.name)) \o <<"jxl">>)

\* l.98: the extensions handle_file converts
SupportedExtensions == {"jpg", "jpeg", "gif", "png", "apng", "webp"}

\* l.68: a fresh temporary name, never one that exists or was handed out before
TemporaryPng(r, task) ==
    Path("tmp", <<"jxl-migrate-cli-", IF r = 1 THEN "1" ELSE "2">> \o task.name
                \o <<"png">>)

Exists(p) == p \in DOMAIN disk
GetSize(p) == disk[p].size
GetMTime(p) == disk[p].mtime

\* the file system with p written (created or replaced)
WriteFile(d, p, size) == [q \in (DOMAIN d) \cup {p} |->
                            IF q = p THEN [size |-> size, mtime |-> NowTime] ELSE d[q]]
\* os.utime(p, (now, mtime))
Utime(d, p, mtime) == [d EXCEPT ![p].mtime = mtime]
\* os.remove(p), p existing
Remove(d, p) == [q \in (DOMAIN d) \ {p} |-> d[q]]

\* what the external tools produce: cjxl's output size and dwebp's output size
\* are functions of the input file
CjxlOutputSize(srcsize) == (srcsize + 1) \div 2
DwebpOutputSize(srcsize) == srcsize + 1

\* l.230-231: the files os.walk yields for the tree as it is on disk
Walk(d) == SelectSeq(WalkOrder, LAMBDA p : p \in DOMAIN d)

-----------------------------------------------------------------------------
(* format_file_size, l.148-152 *)

\* A byte count is the sequence of its base-1024 digits, most significant
\* first and without leading zeros: <<2, 0>> is 2048, <<1, 0, 0, 0, 0, 0>> is
\* 1024^5.  Dividing by 1024.0 moves the point one digit to the left, so
\* after shift divisions the last shift digits are the fraction.  (A float
\* holds every count below 2^53 exactly, and a count from 2^53 on stays at
\* least 1024^5 when it is rounded to a float.)

\* l.150, l.152: the divisor and the limit
Kilo == 1024

\* l.149
Units == <<"Bytes", "KB", "MB", "GB", "TB">>

\* the state before format_file_size was called
NotCalled == [unit |-> "not called", whole |-> 0, thousandths |-> 0]

\* the digits ds times m plus carry: the carry out and the digits
RECURSIVE MulDigits(_, _, _)
MulDigits(ds, m, carry) ==
    IF ds = <<>>
    THEN [carry |-> carry, digits |-> <<>>]
    ELSE LET x == ds[Len(ds)] * m + carry
             rest == MulDigits(SubSeq(ds, 1, Len(ds) - 1), m, x \div Kilo)
         IN  [carry |-> rest.carry, digits |-> Append(rest.digits, x % Kilo)]

\* the integer part of the count after shift divisions, when it has one digit
WholePart(size, shift) == size[Len(size) - shift]

\* the fraction of the count after shift divisions
FractionPart(size, shift) == SubSeq(size, Len(size) - shift + 1, Len(size))

\* l.150: size_in_bytes < 1024.0 after shift divisions
BelowKilo(size, shift) == Len(size) - shift <= 1

\* l.151, f"{size_in_bytes:.3f} {unit}": three decimals, rounded to nearest,
\* a tie to the even neighbour
FormatString(size, shift, unit) ==
    LET scaled == MulDigits(FractionPart(size, shift), 1000, 0)
        rest == scaled.digits
        half == Kilo \div 2
        above == /\ rest # <<>>
                 /\ \/ rest[1] > half
                    \/ /\ rest[1] = half
                       /\ \E i \in 2 .. Len(rest) : rest[i] # 0
        tie == /\ rest # <<>>
               /\ rest[1] = half
               /\ \A i \in 2 .. Len(rest) : rest[i] = 0
        up == above \/ (tie /\ scaled.carry % 2 = 1)
        thousandths == scaled.carry + (IF up THEN 1 ELSE 0)
    IN  IF thousandths = 1000
        THEN [unit |-> unit, whole |-> WholePart(size, shift) + 1, thousandths |-> 0]
        ELSE [unit |-> unit, whole |-> WholePart(size, shift),
              thousandths |-> thousandths]

\* l.149-152: the loop over the units, entered with the count divided shift
\* times; when the units run out the function ends without a return
RECURSIVE FormatLoop(_, _)
FormatLoop(size, shift) ==
    IF shift >= Len(Units)
    THEN None
    ELSE IF BelowKilo(size, shift)
    THEN FormatString(size, shift, Units[shift + 1])
    ELSE FormatLoop(size, shift + 1)

format_file_size(size) == FormatLoop(size, 0)

\* the digits of the byte counts tried
SampleDigits == {0, 1, 2, 500, 512, 1023}

\* the byte counts tried: up to MaxDigits base-1024 digits
ByteCounts ==
    {size \in UNION {[1 .. n -> SampleDigits] : n \in 1 .. MaxDigits} :
        Len(size) = 1 \/ size[1] # 0}

\* an integer of the model as a byte count
RECURSIVE ByteCount(_)
ByteCount(n) ==
    IF n < Kilo THEN <<n>> ELSE Append(ByteCount(n \div Kilo), n % Kilo)

-----------------------------------------------------------------------------
(* The state after start-up *)

\* The pool threads are interchangeable, so a thread is known by the task it
\* runs: local[t] holds the local variables of handle_file for task t and the
\* place its thread has reached; the task is "queued" until a thread takes it
\* and "returned" once try_handle_file has returned.
QueuedLocal ==
    [pc |-> "queued", filesize |-> 0, fullpath |-> None,
     lossy |-> FALSE, losslessjpeg |-> FALSE, decoded_png_filename |-> None,
     jxl_filename |-> None, returncode |-> 0, converted_filename |-> None,
     reg |-> 0]

ReturnedLocal == [QueuedLocal EXCEPT !.pc = "returned"]

AllPaths == Range(WalkOrder)

Tasks == DOMAIN local

\* the tasks a pool thread is running
Busy(loc) == {t \in DOMAIN loc : loc[t].pc \notin {"queued", "returned"}}

NoHistory ==
    [handled |-> 0, outcome |-> "pending", converted |-> FALSE,
     before |-> 0, after |-> 0, inspected |-> "not called"]

NoReport ==
    [kind |-> "none", before |-> 0, after |-> 0,
     before_text |-> NotCalled, after_text |-> NotCalled]

\* l.184-227: the dictionary after the command line was read
ArgumentSets ==
    [delete : BOOLEAN, lossyjpg : BOOLEAN, lossywebp : BOOLEAN, lossygif : BOOLEAN,
     force_overwrite : BOOLEAN, source : {"d"}, cjxl_extra_args : {<<>>},
     jobs : 1 .. MaxJobs]

\* the command lines of the runs explored: --lossyjpg and --lossygif only
\* select the -d and -j arguments handed to cjxl (l.108-112), never the path
\* taken through handle_file, so the runs are explored with both off
RunArguments == {a \in ArgumentSets : ~a.lossyjpg /\ ~a.lossygif}

InitialDisks ==
    {[p \in S |-> [size |-> SourceSize(p), mtime |-> OldTime]] :
        S \in {T \in SUBSET Universe : Cardinality(T) <= MaxFiles}}

\* a pool thread that is not in print_thread_safe
IdlePrinter == [pc |-> "out", calls |-> 0, raised |-> FALSE]

\* l.32-33, l.155, l.229-232: the program started with the command line a
\* over the tree d
Start(a, d) ==
    /\ arguments = a
    /\ disk = d
    /\ filesize_before_conversion = 0
    /\ filesize_after_conversion = 0
    /\ mainpc = "walk"
    /\ listing = Walk(d)
    /\ pending = listing
    /\ taskqueue = <<>>
    /\ local = [t \in Range(listing) |-> QueuedLocal]
    /\ run_no = 1
    /\ startdisk = DOMAIN d
    /\ history = [t \in Range(listing) |-> NoHistory]
    /\ calls = {}
    /\ log = {}
    /\ report = NoReport
    /\ print_lock = 1
    /\ printer = [w \in 1 .. a.jobs |-> IdlePrinter]

\* format_file_size is not being called
NoFormatCall == size_in_bytes = <<0>> /\ formatted = NotCalled

Init == \E a \in RunArguments, d \in InitialDisks : Start(a, d) /\ NoFormatCall

\* the command lines that differ in --lossyjpg, --lossywebp and --lossygif,
\* with one pool thread
FlagArguments ==
    {a \in ArgumentSets : ~a.delete /\ ~a.force_overwrite /\ a.jobs = 1}

FlagDisks ==
    {[p \in S |-> [size |-> SourceSize(p), mtime |-> OldTime]] :
        S \in {T \in SUBSET FlagUniverse : Cardinality(T) <= MaxFiles}}

InitFlags == \E a \in FlagArguments, d \in FlagDisks : Start(a, d) /\ NoFormatCall

\* l.184-193: the arguments when the command line names the directory only,
\* on a machine with one core
DefaultArguments ==
    [delete |-> FALSE, lossyjpg |-> FALSE, lossywebp |-> FALSE, lossygif |-> FALSE,
     force_overwrite |-> FALSE, source |-> "d", cjxl_extra_args |-> <<>>, jobs |-> 1]

EmptyTree == [p \in {} |-> [size |-> 0, mtime |-> OldTime]]

\* the command lines that differ in --jobs only
PrintArguments ==
    {a \in ArgumentSets : [a EXCEPT !.jobs = 1] = DefaultArguments}

\* the pool threads about to print, with no file to handle
InitPrint == \E a \in PrintArguments : Start(a, EmptyTree) /\ NoFormatCall

\* format_file_size about to be called on one of the byte counts
InitFormat ==
    /\ Start(DefaultArguments, EmptyTree)
    /\ size_in_bytes \in ByteCounts
    /\ formatted = NotCalled

-----------------------------------------------------------------------------
(* run(): the main thread, l.229-243 *)

\* l.232: pool.apply_async(try_handle_file, (filename, root)) puts the task on
\* the pool's queue and returns at once
Submit ==
    /\ mainpc = "walk"
    /\ pending # <<>>
    /\ taskqueue' = Append(taskqueue, Head(pending))
    /\ pending' = Tail(pending)
    /\ UNCHANGED <<formatvars, printvars, arguments, disk, filesize_before_conversion,
                   filesize_after_conversion, mainpc, listing, local, run_no,
                   startdisk, history, calls, log, report>>

\* l.233: pool.close(), once os.walk is exhausted
Close ==
    /\ mainpc = "walk"
    /\ pending = <<>>
    /\ mainpc' = "join"
    /\ UNCHANGED <<formatvars, printvars, arguments, disk, filesize_before_conversion,
                   filesize_after_conversion, listing, pending, taskqueue, local,
                   run_no, startdisk, history, calls, log, report>>

JoinReadyNoWait(q, loc) == TRUE

\* l.234: pool.join() returns when the queue is drained and every pool thread
\* has returned from its task
JoinReady(q, loc) == q = <<>> /\ Busy(loc) = {}

Join ==
    /\ mainpc = "join"
    /\ JoinReady(taskqueue, local)
    /\ mainpc' = "report"
    /\ UNCHANGED <<formatvars, printvars, arguments, disk, filesize_before_conversion,
                   filesize_after_conversion, listing, pending, taskqueue, local,
                   run_no, startdisk, history, calls, log, report>>

\* l.236-243: the final report reads the two counters; l.239-240 raise a
\* TypeError when format_file_size returns None
FinalReport(before, after) ==
    IF before = 0
    THEN [kind |-> "No files were converted", before |-> 0, after |-> 0,
          before_text |-> NotCalled, after_text |-> NotCalled]
    ELSE IF format_file_size(ByteCount(before)) = None
    THEN [kind |-> "TypeError", before |-> before, after |-> after,
          before_text |-> None, after_text |-> NotCalled]
    ELSE IF format_file_size(ByteCount(after)) = None
    THEN [kind |-> "TypeError", before |-> before, after |-> after,
          before_text |-> format_file_size(ByteCount(before)), after_text |-> None]
    ELSE [kind |-> "summary", before |-> before, after |-> after,
          before_text |-> format_file_size(ByteCount(before)),
          after_text |-> format_file_size(ByteCount(after))]

Report ==
    /\ mainpc = "report"
    /\ report' = FinalReport(filesize_before_conversion, filesize_after_conversion)
    /\ mainpc' = "done"
    /\ UNCHANGED <<formatvars, printvars, arguments, disk, filesize_before_conversion,
                   filesize_after_conversion, listing, pending, taskqueue, local,
                   run_no, startdisk, history, calls, log>>

-----------------------------------------------------------------------------
(* The pool threads: try_handle_file and handle_file, l.86-145 *)

Call(tool, src, dst, d, j) ==
    [tool |-> tool, src |-> src, dst |-> dst, d |-> d, j |-> j,
     extra |-> arguments.cjxl_extra_args]

Line(msg, path) == [msg |-> msg, path |-> path]

\* the task returns (or its exception was caught): the thread is free again
Finish(t, outcome) ==
    /\ local' = [local EXCEPT ![t] = ReturnedLocal]
    /\ history' = [history EXCEPT ![t].outcome = outcome]

\* l.137: with no temporary PNG handle_file returns after the accounting, with
\* one it goes on to l.138
AfterAccounting(t, loc, hist, outcome) ==
    IF loc[t].decoded_png_filename = None
    THEN /\ local' = [loc EXCEPT ![t] = ReturnedLocal]
         /\ history' = [hist EXCEPT ![t].outcome = outcome]
    ELSE /\ local' = loc
         /\ history' = hist

RaiseErrorThreadDies(t) ==
    /\ local' = [local EXCEPT ![t] = [QueuedLocal EXCEPT !.pc = "dead"]]
    /\ history' = [history EXCEPT ![t].outcome = "error"]
    /\ log' = log

\* l.144-145: an exception left handle_file; it is printed, the task is over
RaiseError(t) ==
    /\ Finish(t, "error")
    /\ log' = log \cup {Line("Error processing", FullPath(t))}

QueueAfterGetKeep(q) == q

\* the pool's queue once a thread has taken its head
QueueAfterGet(q) == Tail(q)

PoolThreadFreeAlways(loc, jobs) == TRUE

\* l.229: ThreadPool(arguments['jobs']) has jobs threads, each running one
\* task at a time; one of them is free when fewer than jobs tasks are running
PoolThreadFree(loc, jobs) == Cardinality(Busy(loc)) < jobs

\* l.229, l.141-143: a free pool thread takes the task at the head of the
\* queue and calls try_handle_file
Take(t) ==
    /\ taskqueue # <<>>
    /\ t = Head(taskqueue)
    /\ PoolThreadFree(local, arguments.jobs)
    /\ taskqueue' = QueueAfterGet(taskqueue)
    /\ local' = [local EXCEPT ![t] = [QueuedLocal EXCEPT !.pc = "handle_file"]]
    /\ history' = [history EXCEPT ![t].handled = @ + 1]
    /\ UNCHANGED <<formatvars, printvars, arguments, disk, filesize_before_conversion,
                   filesize_after_conversion, mainpc, listing, pending, run_no,
                   startdisk, calls, log, report>>

SkipExistingExceptWebp(extension, force_overwrite, target_exists) ==
    extension # "webp" /\ ~force_overwrite /\ target_exists

SkipExistingInverted(extension, force_overwrite, target_exists) ==
    force_overwrite /\ target_exists

\* l.104-105: the task is skipped when the target is there and overwriting is off
SkipExisting(extension, force_overwrite, target_exists) ==
    ~force_overwrite /\ target_exists

ClassifyJpegAlwaysLossless(extension, args) ==
    IF extension \in {"jpg", "jpeg"}
    THEN [lossy |-> args.lossyjpg, losslessjpeg |-> TRUE]
    ELSE IF extension \in {"gif"}
    THEN [lossy |-> args.lossygif, losslessjpeg |-> FALSE]
    ELSE [lossy |-> FALSE, losslessjpeg |-> FALSE]

\* l.108-112: lossy and losslessjpeg of the extensions converted directly
Classify(extension, args) ==
    IF extension \in {"jpg", "jpeg"}
    THEN [lossy |-> args.lossyjpg, losslessjpeg |-> ~args.lossyjpg]
    ELSE IF extension \in {"gif"}
    THEN [lossy |-> args.lossygif, losslessjpeg |-> FALSE]
    ELSE [lossy |-> FALSE, losslessjpeg |-> FALSE]

\* l.91-113: extension, full path and size of the source, the extension
\* filter, the skip-if-exists check, then the branch on the extension
HandleFile(t) ==
    LET task == t
        extension == Extension(task.name)
        fullpath == FullPath(task)
        jxl_filename == JxlFilename(task)
    IN  /\ t \in Tasks
        /\ local[t].pc = "handle_file"
        /\ IF ~Exists(fullpath)
           THEN RaiseError(t)                                 \* l.94 raises
           ELSE IF extension \notin SupportedExtensions
           THEN /\ Finish(t, IF extension = "jxl" THEN "already_target"
                                                   ELSE "unsupported")
                /\ log' = IF extension # "jxl"
                          THEN log \cup {Line("Not supported", fullpath)}
                          ELSE log
           ELSE IF SkipExisting(extension, arguments.force_overwrite,
                                Exists(jxl_filename))
           THEN /\ Finish(t, "skipped")
                /\ log' = log \cup {Line("already exists, skipping", fullpath)}
           ELSE /\ local' = [local EXCEPT
                      ![t].pc = IF extension \in {"webp"} THEN "decode" ELSE "convert",
                      ![t].fullpath = fullpath,
                      ![t].filesize = GetSize(fullpath),
                      ![t].jxl_filename = jxl_filename,
                      ![t].lossy = Classify(extension, arguments).lossy,
                      ![t].losslessjpeg = Classify(extension, arguments).losslessjpeg]
                /\ UNCHANGED <<log, history>>
        /\ UNCHANGED <<formatvars, printvars, arguments, disk, filesize_before_conversion,
                       filesize_after_conversion, mainpc, listing, pending,
                       taskqueue, run_no, startdisk, calls, report>>

\* l.79 and l.58: a tool run counts when it exited 0 and its output exists
ToolSucceededExitOnly(returncode, output_exists) == returncode = 0

ToolSucceeded(returncode, output_exists) == returncode = 0 /\ output_exists

\* l.44: 'Format: Lossless' in output
is_webp_lossless(output) == output = "Format: Lossless"

WebpLossyInverted(lossywebp, lossless) == IF lossywebp THEN TRUE ELSE lossless

\* l.117-120: lossy of a WebP
WebpLossy(lossywebp, lossless) == IF lossywebp THEN TRUE ELSE ~lossless

\* l.114-118 and convert_webp_to_temporary_png (l.67-83): dwebp decodes the
\* WebP into a fresh temporary PNG; with lossywebp the conversion is lossy
Decode(t) ==
    LET task == t
        temporary_png_filename == TemporaryPng(run_no, task)
    IN  /\ t \in Tasks
        /\ local[t].pc = "decode"
        /\ \E returncode \in {0, 1}, wrote \in BOOLEAN :
             LET disk1 == IF wrote
                          THEN WriteFile(disk, temporary_png_filename,
                                         DwebpOutputSize(local[t].filesize))
                          ELSE disk
             IN  IF ToolSucceeded(returncode, temporary_png_filename \in DOMAIN disk1)
                 THEN /\ disk' = Utime(disk1, temporary_png_filename,
                                       GetMTime(local[t].fullpath))
                      /\ local' = IF arguments.lossywebp                \* l.117-118
                                  THEN [local EXCEPT
                                      ![t].pc = "convert",
                                      ![t].decoded_png_filename = temporary_png_filename,
                                      ![t].lossy = WebpLossy(TRUE, FALSE),
                                      ![t].fullpath = temporary_png_filename]
                                  ELSE [local EXCEPT
                                      ![t].pc = "inspect",
                                      ![t].decoded_png_filename = temporary_png_filename]
                      /\ UNCHANGED history
                 ELSE /\ disk' = disk1
                      /\ Finish(t, "decode_failed")           \* l.116
        /\ log' = log \cup {Line("Converting to a temporary PNG", FullPath(task))}
        /\ calls' = calls \cup {Call("dwebp", FullPath(task), temporary_png_filename,
                                     "", "")}
        /\ UNCHANGED <<formatvars, printvars, arguments, filesize_before_conversion,
                       filesize_after_conversion, mainpc, listing, pending,
                       taskqueue, run_no, startdisk, report>>

\* l.119-121 and is_webp_lossless (l.38-44): without lossywebp webpinfo
\* decides, and check_output raises when it exits non-zero
Inspect(t) ==
    LET task == t
    IN  /\ t \in Tasks
        /\ local[t].pc = "inspect"
        /\ calls' = calls \cup {Call("webpinfo", FullPath(task), None, "", "")}
        /\ \E output \in {"Format: Lossless", "Format: Lossy", "failed"} :
             IF output = "failed"
             THEN RaiseError(t)
             ELSE /\ local' = [local EXCEPT
                        ![t].pc = "convert",
                        ![t].lossy = WebpLossy(arguments.lossywebp,
                                               is_webp_lossless(output)),
                        ![t].fullpath = local[t].decoded_png_filename]
                  /\ history' = [history EXCEPT ![t].inspected = output]
                  /\ UNCHANGED log
        /\ UNCHANGED <<formatvars, printvars, arguments, disk, filesize_before_conversion,
                       filesize_after_conversion, mainpc, listing, pending,
                       taskqueue, run_no, startdisk, report>>

\* l.53, l.55: '1' if lossy else '0'
Flag(b) == IF b THEN "1" ELSE "0"

\* l.122-130 and l.48-56: the notice, then cjxl runs on fullpath
RunCjxl(t) ==
    LET p == local[t].fullpath
        target_filename == local[t].jxl_filename
    IN  /\ t \in Tasks
        /\ local[t].pc = "convert"
        /\ log' = log \cup {Line(IF local[t].lossy THEN "Converting to a lossy JXL"
                                                    ELSE "Converting to a lossless JXL", p)}
        /\ calls' = calls \cup {Call("cjxl", p, target_filename,
                                     Flag(local[t].lossy), Flag(local[t].losslessjpeg))}
        /\ \E returncode \in {0, 1}, wrote \in BOOLEAN :
             /\ disk' = IF wrote /\ Exists(p)
                        THEN WriteFile(disk, target_filename, CjxlOutputSize(GetSize(p)))
                        ELSE disk
             /\ local' = [local EXCEPT ![t].pc = "convert_result",
                                       ![t].returncode = returncode]
        /\ UNCHANGED <<formatvars, printvars, arguments, filesize_before_conversion,
                       filesize_after_conversion, mainpc, listing, pending,
                       taskqueue, run_no, startdisk, history, report>>

\* convert, l.58-64, and its caller, l.130-132: the result of the cjxl run;
\* on success the target takes the source's mtime and, with remove, p is deleted
ConvertResult(t) ==
    LET p == local[t].fullpath
        target_filename == local[t].jxl_filename
    IN  /\ t \in Tasks
        /\ local[t].pc = "convert_result"
        /\ IF ~ToolSucceeded(local[t].returncode, Exists(target_filename))
           THEN /\ AfterAccounting(t, [local EXCEPT ![t].pc = "cleanup",   \* l.59
                                                      ![t].converted_filename = None],
                                    history, "failed")
                /\ log' = log \cup {Line("Conversion FAILED", p)}
                /\ UNCHANGED disk
           ELSE IF ~Exists(target_filename) \/ ~Exists(p)
           THEN /\ RaiseError(t)                                      \* l.61 raises
                /\ UNCHANGED disk
           ELSE /\ disk' = LET disk1 == Utime(disk, target_filename, GetMTime(p))
                           IN  IF arguments.delete THEN Remove(disk1, p) ELSE disk1
                /\ local' = [local EXCEPT ![t].pc = "load_before",
                                          ![t].converted_filename = target_filename]
                /\ history' = [history EXCEPT ![t].converted = TRUE,
                                              ![t].before = local[t].filesize]
                /\ UNCHANGED log
        /\ UNCHANGED <<formatvars, printvars, arguments, filesize_before_conversion,
                       filesize_after_conversion, mainpc, listing, pending,
                       taskqueue, run_no, startdisk, calls, report>>

\* l.134, filesize_before_conversion += filesize: the global is read ...
LoadBefore(t) ==
    /\ t \in Tasks
    /\ local[t].pc = "load_before"
    /\ local' = [local EXCEPT ![t].pc = "store_before",
                              ![t].reg = filesize_before_conversion]
    /\ UNCHANGED <<formatvars, printvars, arguments, disk, filesize_before_conversion,
                   filesize_after_conversion, mainpc, listing, pending, taskqueue,
                   run_no, startdisk, history, calls, log, report>>

\* ... and the sum is stored: no lock is held between the two
StoreBefore(t) ==
    /\ t \in Tasks
    /\ local[t].pc = "store_before"
    /\ filesize_before_conversion' = local[t].reg + local[t].filesize
    /\ local' = [local EXCEPT ![t].pc = "load_after", ![t].reg = 0]
    /\ UNCHANGED <<formatvars, printvars, arguments, disk,
                   filesize_after_conversion, mainpc, listing, pending, taskqueue,
                   run_no, startdisk, history, calls, log, report>>

\* l.135, filesize_after_conversion += os.path.getsize(converted_filename):
\* the global is read before getsize is called ...
LoadAfter(t) ==
    /\ t \in Tasks
    /\ local[t].pc = "load_after"
    /\ local' = [local EXCEPT ![t].pc = "store_after",
                              ![t].reg = filesize_after_conversion]
    /\ UNCHANGED <<formatvars, printvars, arguments, disk, filesize_before_conversion,
                   filesize_after_conversion, mainpc, listing, pending, taskqueue,
                   run_no, startdisk, history, calls, log, report>>

\* ... then the size of the target is added and the sum is stored
StoreAfter(t) ==
    /\ t \in Tasks
    /\ local[t].pc = "store_after"
    /\ IF ~Exists(local[t].converted_filename)
       THEN /\ RaiseError(t)
            /\ UNCHANGED filesize_after_conversion
       ELSE /\ filesize_after_conversion' =
                  local[t].reg + GetSize(local[t].converted_filename)
            /\ AfterAccounting(t, [local EXCEPT ![t].pc = "cleanup", ![t].reg = 0],
                                [history EXCEPT ![t].after =
                                                  GetSize(local[t].converted_filename)],
                                "success")
            /\ UNCHANGED log
    /\ UNCHANGED <<formatvars, printvars, arguments, disk,
                   filesize_before_conversion, mainpc, listing, pending, taskqueue,
                   run_no, startdisk, calls, report>>

\* l.138: the temporary PNG is removed; os.remove raises when it is not there
Cleanup(t) ==
    LET decoded_png_filename == local[t].decoded_png_filename
        outcome == IF local[t].converted_filename = None THEN "failed" ELSE "success"
    IN  /\ t \in Tasks
        /\ local[t].pc = "cleanup"
        /\ IF Exists(decoded_png_filename)
           THEN /\ disk' = Remove(disk, decoded_png_filename)
                /\ Finish(t, outcome)
                /\ UNCHANGED log
           ELSE /\ RaiseError(t)
                /\ UNCHANGED disk
        /\ UNCHANGED <<formatvars, printvars, arguments, filesize_before_conversion,
                       filesize_after_conversion, mainpc, listing, pending,
                       taskqueue, run_no, startdisk, calls, report>>

-----------------------------------------------------------------------------
(* The program run once, and run a second time over the same tree *)

Next ==
    \/ Submit
    \/ Close
    \/ Join
    \/ Report
    \/ \E t \in AllPaths :
         \/ Take(t)
         \/ HandleFile(t)
         \/ Decode(t)
         \/ Inspect(t)
         \/ RunCjxl(t)
         \/ ConvertResult(t)
         \/ LoadBefore(t)
         \/ StoreBefore(t)
         \/ LoadAfter(t)
         \/ StoreAfter(t)
         \/ Cleanup(t)

Spec == Init /\ [][Next]_vars

\* the program is started again over the same tree with the same command line:
\* a new process, so the counters start at 0 again (l.32-33), a new pool
\* (l.229) and a new walk (l.230) over the tree as the first run left it
Rerun ==
    /\ mainpc = "done"
    /\ run_no = 1
    /\ run_no' = 2
    /\ filesize_before_conversion' = 0
    /\ filesize_after_conversion' = 0
    /\ mainpc' = "walk"
    /\ listing' = Walk(disk)
    /\ pending' = listing'
    /\ taskqueue' = <<>>
    /\ local' = [t \in Range(listing') |-> QueuedLocal]
    /\ startdisk' = DOMAIN disk
    /\ history' = [t \in Range(listing') |-> NoHistory]
    /\ calls' = {}
    /\ log' = {}
    /\ report' = NoReport
    /\ UNCHANGED <<formatvars, printvars, arguments, disk>>

NextTwice == Next \/ Rerun

\* the two runs the idempotence property speaks of: without --delete and
\* without --force-overwrite
InitTwice == Init /\ ~arguments.delete /\ ~arguments.force_overwrite

SpecTwice == InitTwice /\ [][NextTwice]_vars

\* one run for every setting of the three lossy flags over every kind of image
SpecFlags == InitFlags /\ [][Next]_vars

\* l.148-152: format_file_size is called and returns
FormatFileSize ==
    /\ formatted = NotCalled
    /\ formatted' = format_file_size(size_in_bytes)
    /\ UNCHANGED <<size_in_bytes, printvars, arguments, disk,
                   filesize_before_conversion, filesize_after_conversion, mainpc,
                   listing, pending, taskqueue, local, run_no, startdisk, history,
                   calls, log, report>>

NextFormat == FormatFileSize

-----------------------------------------------------------------------------
(* print_thread_safe, l.155-160, called by the pool threads *)

PoolThreads == 1 .. MaxJobs

\* a pool thread calls print_thread_safe (l.70, 100, 106, 128, 132, 145)
CallPrint(w) ==
    /\ w \in DOMAIN printer
    /\ printer[w].pc = "out"
    /\ printer[w].calls < MaxLines
    /\ printer' = [printer EXCEPT ![w].pc = "acquire", ![w].calls = @ + 1]
    /\ UNCHANGED <<formatvars, print_lock, arguments, disk,
                   filesize_before_conversion, filesize_after_conversion, mainpc,
                   listing, pending, taskqueue, local, run_no, startdisk, history,
                   calls, log, report>>

\* l.159, with print_lock: Semaphore.acquire waits while the value is 0,
\* then takes 1 off
Acquire(w) ==
    /\ w \in DOMAIN printer
    /\ printer[w].pc = "acquire"
    /\ print_lock > 0
    /\ print_lock' = print_lock - 1
    /\ printer' = [printer EXCEPT ![w].pc = "print"]
    /\ UNCHANGED <<formatvars, arguments, disk,
                   filesize_before_conversion, filesize_after_conversion, mainpc,
                   listing, pending, taskqueue, local, run_no, startdisk, history,
                   calls, log, report>>

\* l.160: print writes the line, or raises
WriteLine(w) ==
    /\ w \in DOMAIN printer
    /\ printer[w].pc = "print"
    /\ \E raises \in BOOLEAN :
         printer' = [printer EXCEPT ![w].pc = "exit", ![w].raised = raises]
    /\ UNCHANGED <<formatvars, print_lock, arguments, disk,
                   filesize_before_conversion, filesize_after_conversion, mainpc,
                   listing, pending, taskqueue, local, run_no, startdisk, history,
                   calls, log, report>>

ExitReleasesUnlessRaised(raised) == ~raised

\* l.159: the with statement releases the semaphore when the block is left,
\* by its end or by an exception
ExitReleases(raised) == TRUE

\* l.159-160: the block is left; an exception goes on to the caller
Exit(w) ==
    /\ w \in DOMAIN printer
    /\ printer[w].pc = "exit"
    /\ print_lock' = IF ExitReleases(printer[w].raised)
                     THEN print_lock + 1
                     ELSE print_lock
    /\ printer' = [printer EXCEPT ![w].pc = "out", ![w].raised = FALSE]
    /\ UNCHANGED <<formatvars, arguments, disk,
                   filesize_before_conversion, filesize_after_conversion, mainpc,
                   listing, pending, taskqueue, local, run_no, startdisk, history,
                   calls, log, report>>

\* the steps of thread w inside print_thread_safe
InPrintThreadSafe(w) == Acquire(w) \/ WriteLine(w) \/ Exit(w)

NextPrint ==
    \E w \in PoolThreads :
        \/ CallPrint(w)
        \/ Acquire(w)
        \/ WriteLine(w)
        \/ Exit(w)

\* print_thread_safe on its own, called by every pool thread up to MaxLines
\* times; a thread inside print_thread_safe is scheduled again and again
SpecPrint ==
    /\ InitPrint
    /\ [][NextPrint]_vars
    /\ \A w \in PoolThreads : WF_vars(InPrintThreadSafe(w))

\* format_file_size on its own, called once on every byte count tried
SpecFormat == InitFormat /\ [][NextFormat]_vars

\* the run does not stand still while a step is possible: the operating
\* system schedules run() and the pool threads, and every subprocess exits
FairSpec == Init /\ [][Next]_vars /\ WF_vars(Next)

-----------------------------------------------------------------------------
(* What the claims speak of *)

Ended(t) == history[t].outcome # "pending"

\* the external tool invocations made for task t in this run
TaskCalls(t) == {c \in calls : c.src \in {FullPath(t), TemporaryPng(run_no, t)}}

EncoderCalls == {c \in calls : c.tool = "cjxl"}

RECURSIVE SumBefore(_)
SumBefore(S) ==
    IF S = {} THEN 0
    ELSE LET t == CHOOSE x \in S : TRUE
         IN  history[t].before + SumBefore(S \ {t})

RECURSIVE SumAfter(_)
SumAfter(S) ==
    IF S = {} THEN 0
    ELSE LET t == CHOOSE x \in S : TRUE
         IN  history[t].after + SumAfter(S \ {t})

\* the tasks whose conversion succeeded (convert returned the target)
Converted == {t \in Tasks : history[t].converted}

AllTasksEnded ==
    /\ pending = <<>>
    /\ taskqueue = <<>>
    /\ Busy(local) = {}
    /\ \A t \in Tasks : Ended(t)

-----------------------------------------------------------------------------
\* the step of handle_file that finds the target of a supported file present,
\* with force-overwrite off: it prints the skip notice and ends the task, calls
\* no tool, and leaves the disk and the counters alone
C1_SkipStep ==
    \A t \in Tasks :
        ( /\ local[t].pc = "handle_file"
          /\ local'[t] # local[t]
          /\ Extension(t.name) \in SupportedExtensions
          /\ ~arguments.force_overwrite
          /\ JxlFilename(t) \in DOMAIN disk )
        => ( /\ Line("already exists, skipping", FullPath(t)) \in log'
             /\ local'[t].pc = "returned"
             /\ history'[t].outcome = "skipped"
             /\ calls' = calls
             /\ disk' = disk
             /\ filesize_before_conversion' = filesize_before_conversion
             /\ filesize_after_conversion' = filesize_after_conversion )

\* a skipped task has called no tool and counted nothing
C1_SkippedDidNothing ==
    \A t \in Tasks :
        history[t].outcome = "skipped"
        => /\ TaskCalls(t) = {}
           /\ ~history[t].converted
           /\ history[t].before = 0 /\ history[t].after = 0

(* C1: a supported file (WebP included) whose target exists when            *)
(* handle_file checks it, with force-overwrite off, is skipped: the notice  *)
(* 'already exists, skipping' is printed and the task ends without a call   *)
(* of dwebp, webpinfo or cjxl and without a change of the counters.         *)
C1_ExistingTargetSkipped == [][C1_SkipStep]_vars /\ []C1_SkippedDidNothing

C1_Witness ==
    \E t \in Tasks :
        /\ Extension(t.name) = "webp"
        /\ history[t].outcome = "skipped"
        /\ ~arguments.force_overwrite

(* C2: when the report is made, the two counters are the sums of the        *)
(* source sizes and of the target sizes over exactly the tasks whose        *)
(* conversion succeeded.                                                    *)
C2_TotalsAreSums ==
    mainpc \in {"report", "done"}
    => /\ filesize_before_conversion = SumBefore(Converted)
       /\ filesize_after_conversion = SumAfter(Converted)

(* C3: every file the walk found is taken for handling exactly once: never  *)
(* twice, and none is left out once the pool was joined.                    *)
C3_HandledExactlyOnce ==
    /\ Range(listing) = startdisk
    /\ Len(listing) = Cardinality(startdisk)
    /\ Tasks = startdisk
    /\ \A t \in Tasks : history[t].handled <= 1
    /\ \A t \in Tasks : Ended(t) => history[t].handled = 1
    /\ mainpc \in {"report", "done"} => \A t \in Tasks : history[t].handled = 1

C3_Witness ==
    /\ mainpc = "done"
    /\ arguments.jobs >= 2
    /\ Len(listing) >= 3
    /\ \A t \in Tasks : history[t].handled = 1

(* C4: with delete-originals, a WebP converted successfully has lost its    *)
(* original file when its task has ended, and the task ended normally.      *)
C4_DeleteRemovesOriginalWebp ==
    \A t \in Tasks :
        ( /\ arguments.delete
          /\ Extension(t.name) = "webp"
          /\ history[t].converted
          /\ Ended(t) )
        => ( /\ FullPath(t) \notin DOMAIN disk
             /\ history[t].outcome = "success" )

(* C5: once a WebP task that decoded its source has ended (conversion done  *)
(* or failed, inspector failed, or an exception caught), its temporary PNG  *)
(* is not on disk.                                                          *)
C5_NoTemporaryLeft ==
    \A t \in Tasks :
        history[t].outcome \in {"success", "failed", "error"}
        => TemporaryPng(run_no, t) \notin DOMAIN disk

\* the step in which convert looks at the cjxl run: it returns the target
\* exactly when cjxl exited 0 and the target exists; otherwise it returns None,
\* the failure is printed and the disk is left as it is
C6_ConvertStep ==
    \A t \in Tasks :
        ( /\ local[t].pc = "convert_result"
          /\ local'[t] # local[t] )
        => LET target == local[t].jxl_filename
               ok == local[t].returncode = 0 /\ target \in DOMAIN disk
           IN  /\ ok => /\ local'[t].converted_filename = target
                        /\ local'[t].pc = "load_before"
                        /\ history'[t].converted
                        /\ target \in DOMAIN disk'
               /\ ~ok => /\ ~history'[t].converted
                         /\ disk' = disk
                         /\ Line("Conversion FAILED", local[t].fullpath) \in log'
                         /\ \/ history'[t].outcome = "failed"
                            \/ /\ local'[t].pc = "cleanup"
                               /\ local'[t].converted_filename = None

\* a file that was there when the run began is gone only if delete-originals
\* is set and its own conversion succeeded
C6_DeletedOnlyAfterSuccess ==
    \A p \in startdisk :
        p \notin DOMAIN disk
        => /\ arguments.delete
           /\ p \in Tasks
           /\ history[p].converted

(* C6: convert returns the target iff cjxl exited 0 and the target exists   *)
(* afterwards, otherwise None with the source kept; so over a run a source  *)
(* is deleted only with delete-originals and after its own conversion       *)
(* succeeded, never by a skipped, unsupported or failed task.               *)
C6_ConvertSuccessIffExitZeroAndTarget ==
    [][C6_ConvertStep]_vars /\ []C6_DeletedOnlyAfterSuccess

C6_Witness ==
    /\ arguments.delete
    /\ \E t \in Tasks : history[t].converted /\ FullPath(t) \notin DOMAIN disk
    /\ \E t \in Tasks : history[t].outcome = "failed" /\ FullPath(t) \in DOMAIN disk

(* C7: in a run where a task failed (a tool exited non-zero or handle_file  *)
(* raised), once the pool is joined every task has ended and the counters   *)
(* hold the contribution of every task whose conversion succeeded.          *)
C7_FailureLeavesSiblingsCounted ==
    ( /\ mainpc \in {"report", "done"}
      /\ \E t \in Tasks : /\ history[t].outcome \in {"failed", "decode_failed", "error"}
                         /\ ~history[t].converted )
    => ( /\ AllTasksEnded
         /\ filesize_before_conversion = SumBefore(Converted)
         /\ filesize_after_conversion = SumAfter(Converted) )

\* the part of C7 that the code keeps: a failed task stops neither the pool
\* thread nor the other tasks
FailureStopsNothing ==
    /\ \A t \in Tasks : local[t].pc # "dead"
    /\ mainpc \in {"report", "done"} => AllTasksEnded

(* C8 as stated: in a second run over the same tree, with delete-originals  *)
(* and force-overwrite off, cjxl is never invoked and the counters stay 0.  *)
C8_SecondRunConvertsNothing ==
    (run_no = 2 /\ ~arguments.delete /\ ~arguments.force_overwrite)
    => /\ EncoderCalls = {}
       /\ filesize_before_conversion = 0
       /\ filesize_after_conversion = 0

\* the supported files of this run whose target was not there when it began
Unconverted ==
    {t \in Tasks : /\ Extension(t.name) \in SupportedExtensions
                   /\ JxlFilename(t) \notin startdisk}

(* C8 as amended: in such a second run cjxl is invoked only towards targets *)
(* that did not exist when the run began (the first run did not produce     *)
(* them); when every supported file's target existed, cjxl is not invoked   *)
(* at all and the counters stay 0.                                          *)
C8_SecondRunConvertsOnlyMissing ==
    (run_no = 2 /\ ~arguments.delete /\ ~arguments.force_overwrite)
    => /\ \A c \in EncoderCalls : c.dst \notin startdisk
       /\ \A t \in Tasks : history[t].converted => t \in Unconverted
       /\ Unconverted = {} => /\ EncoderCalls = {}
                              /\ filesize_before_conversion = 0
                              /\ filesize_after_conversion = 0

C8_Witness ==
    /\ run_no = 2
    /\ mainpc = "done"
    /\ ~arguments.delete /\ ~arguments.force_overwrite
    /\ Unconverted = {}
    /\ Path("d", <<"a", "jxl">>) \in startdisk
    /\ Path("d", <<"a", "jpg">>) \in Tasks
    /\ history[Path("d", <<"a", "jpg">>)].outcome = "skipped"
    /\ report.kind = "No files were converted"

(* C9: the report is made, and the counters are read for it, only when      *)
(* every submitted task has ended; apply_async never waits: while files     *)
(* remain, the next one can be submitted whatever the tasks are doing.      *)
C9_ReportAfterJoin ==
    /\ mainpc \in {"report", "done"} => AllTasksEnded
    /\ report # NoReport => mainpc = "done"
    /\ (mainpc = "walk" /\ pending # <<>>) => ENABLED Submit

C9_Witness ==
    /\ mainpc = "done"
    /\ report.kind = "summary"
    /\ arguments.jobs >= 2
    /\ Cardinality({t \in Tasks : history[t].outcome = "success"}) >= 2

WebpTasks == {t \in Tasks : Extension(t.name) = "webp"}

\* the cjxl invocations made for task t
EncoderCallsOf(t) ==
    {c \in EncoderCalls : c.src \in {FullPath(t), TemporaryPng(run_no, t)}}

(* C11: every cjxl invocation for a WebP carries -j 0, and -d 1 exactly     *)
(* when lossywebp is set or webpinfo did not report 'Format: Lossless'; so  *)
(* a lossless source without lossywebp gets -d 0, and with lossywebp the    *)
(* flag is 1 whatever the source is (webpinfo is then not even asked).      *)
C11_WebpFlags ==
    \A t \in WebpTasks : \A c \in EncoderCallsOf(t) :
        /\ c.j = "0"
        /\ c.d \in {"0", "1"}
        /\ c.d = "1" <=> ( \/ arguments.lossywebp
                           \/ /\ ~arguments.lossywebp
                              /\ history[t].inspected = "Format: Lossy" )
        /\ (~arguments.lossywebp /\ history[t].inspected = "Format: Lossless")
           => c.d = "0"
        /\ arguments.lossywebp => /\ c.d = "1"
                                  /\ history[t].inspected = "not called"
        /\ ~arguments.lossywebp
           => history[t].inspected \in {"Format: Lossy", "Format: Lossless"}

C11_Witness ==
    /\ ~arguments.lossywebp
    /\ \E t \in WebpTasks :
         /\ history[t].inspected = "Format: Lossless"
         /\ history[t].outcome = "success"
         /\ \E c \in EncoderCallsOf(t) : c.d = "0" /\ c.j = "0"

\* the -d and -j arguments the claim gives for a file name ending in ending
DirectFlags(ending, args) ==
    CASE ending \in {"jpg", "JPG", "jpeg", "JPEG"} ->
             IF args.lossyjpg THEN <<"1", "0">> ELSE <<"0", "1">>
      [] ending \in {"gif", "GIF"} ->
             IF args.lossygif THEN <<"1", "0">> ELSE <<"0", "0">>
      [] ending \in {"png", "PNG", "apng", "APNG"} -> <<"0", "0">>

DirectEndings ==
    {"jpg", "JPG", "jpeg", "JPEG", "gif", "GIF", "png", "PNG", "apng", "APNG"}

(* C12: for a jpg, jpeg, gif, png or apng file (in any letter case) the     *)
(* only tool called is cjxl, never dwebp or webpinfo, and its -d and -j     *)
(* arguments are those the extension and the flags give: jpg/jpeg '0','1'   *)
(* without lossyjpg and '1','0' with it, gif '1' or '0' by lossygif with    *)
(* -j '0', png/apng '0','0' whatever the flags.                             *)
C12_DirectFlagsByExtension ==
    \A t \in Tasks :
        t.name[Len(t.name)] \in DirectEndings
        => \A c \in calls :
             c.src = FullPath(t)
             => /\ c.tool = "cjxl"
                /\ <<c.d, c.j>> = DirectFlags(t.name[Len(t.name)], arguments)

C12_Witness ==
    /\ arguments.lossyjpg /\ ~arguments.lossygif /\ arguments.lossywebp
    /\ \E c \in EncoderCalls :
         c.src = Path("d", <<"e", "JPEG">>) /\ c.d = "1" /\ c.j = "0"
    /\ \E c \in EncoderCalls :
         c.src = Path("d", <<"g", "gif">>) /\ c.d = "0" /\ c.j = "0"
    /\ \E c \in EncoderCalls :
         c.src = Path("d", <<"f", "apng">>) /\ c.d = "0" /\ c.j = "0"

(* C13: the report says 'No files were converted' exactly when no           *)
(* conversion of the run succeeded, and gives the summary otherwise,        *)
(* whatever the sizes of the converted sources.                             *)
C13_NoFilesIffNoneConverted ==
    mainpc = "done"
    => /\ report.kind = "No files were converted" <=> Converted = {}
       /\ report.kind = "summary" <=> Converted # {}

\* the unit the claim gives a byte count of n base-1024 digits
ClaimedUnit(n) == IF n >= Len(Units) THEN "TB" ELSE Units[n]

(* C14: format_file_size returns a formatted string for every byte count;   *)
(* its unit is the first of Bytes, KB, MB, GB, TB at which the count,       *)
(* divided by 1024 once per unit passed, is below 1024, and TB for every    *)
(* count of 1024^5 or more; 500 gives 500.000 Bytes and 2048 gives 2.000 KB. *)
C14_AlwaysFormatted ==
    formatted # NotCalled
    => /\ formatted # None
       /\ formatted.unit = ClaimedUnit(Len(size_in_bytes))
       /\ Len(size_in_bytes) >= 6 => formatted.unit = "TB"
       /\ size_in_bytes = <<500>>
          => formatted = [unit |-> "Bytes", whole |-> 500, thousandths |-> 0]
       /\ size_in_bytes = <<2, 0>>
          => formatted = [unit |-> "KB", whole |-> 2, thousandths |-> 0]

\* what holds of the code: the same below 1024^5
FormattedBelowLimit ==
    (formatted # NotCalled /\ Len(size_in_bytes) < 6)
    => /\ formatted # None
       /\ formatted.unit = Units[Len(size_in_bytes)]
       /\ size_in_bytes = <<500>>
          => formatted = [unit |-> "Bytes", whole |-> 500, thousandths |-> 0]
       /\ size_in_bytes = <<2, 0>>
          => formatted = [unit |-> "KB", whole |-> 2, thousandths |-> 0]

\* the tasks whose thread is at, or has not yet looked at the result of, a
\* subprocess call (dwebp, webpinfo, cjxl)
AtSubprocess ==
    {t \in Tasks : local[t].pc \in {"decode", "inspect", "convert", "convert_result"}}

\* at most --jobs tasks are running, and so at most --jobs subprocesses
C15_AtMostJobs ==
    /\ arguments.jobs >= 1
    /\ Cardinality(Busy(local)) <= arguments.jobs
    /\ Cardinality(AtSubprocess) <= arguments.jobs

\* a task is started only when fewer than --jobs tasks are running: the
\* thread that takes it has returned from the task it ran before
C15_TakeStep ==
    \A t \in Tasks :
        (local[t].pc = "queued" /\ local'[t].pc # "queued")
        => /\ Cardinality(Busy(local)) < arguments.jobs
           /\ Busy(local') = Busy(local) \cup {t}

(* C15: in every reachable state at most --jobs (>= 1) tasks are running,   *)
(* hence at most --jobs subprocesses; a pool thread takes its next task     *)
(* only when the task it ran before has returned.                           *)
C15_BoundedPool == []C15_AtMostJobs /\ [][C15_TakeStep]_vars

C15_Witness ==
    /\ arguments.jobs = 2
    /\ Cardinality(Busy(local)) = 2
    /\ Cardinality(AtSubprocess) = 2
    /\ taskqueue # <<>>

\* the tasks between their read of filesize_before_conversion (l.134) and
\* their store to filesize_after_conversion (l.135)
InAccounting ==
    {t \in Tasks : local[t].pc \in {"store_before", "load_after", "store_after"}}

(* C16: the two increments of a successful conversion are one critical      *)
(* section: while a task is between its read of the first counter and its   *)
(* store to the second, no other task is.                                   *)
C16_OneCriticalSection == Cardinality(InAccounting) <= 1

(* C17: a task that ended on the 'Error processing' path of try_handle_file *)
(* added nothing to either counter: it is not also a successful conversion. *)
C17_ErrorTaskCountsNothing ==
    \A t \in Tasks :
        ( \/ history[t].outcome = "error"
          \/ Line("Error processing", FullPath(t)) \in log )
        => /\ ~history[t].converted
           /\ history[t].before = 0
           /\ history[t].after = 0

\* C17 apart from the WebP tasks of a run with --delete
ErrorTaskCountsNothingElsewhere ==
    \A t \in Tasks :
        ( /\ history[t].outcome = "error"
          /\ ~(arguments.delete /\ Extension(t.name) = "webp") )
        => /\ ~history[t].converted
           /\ history[t].before = 0
           /\ history[t].after = 0

\* the lines that report a failure
FailureLines == {"Conversion FAILED", "Error processing", "Decoding FAILED"}

(* C18: when dwebp exits non-zero or leaves no output, the task ends failed: *)
(* a line reporting the failure is printed, webpinfo and cjxl are not       *)
(* called for the file, and nothing is added to the counters.               *)
C18_DecodeFailureLoggedAndStops ==
    \A t \in Tasks :
        history[t].outcome = "decode_failed"
        => /\ \E l \in log : l.path = FullPath(t) /\ l.msg \in FailureLines
           /\ \A c \in TaskCalls(t) : c.tool = "dwebp"
           /\ ~history[t].converted
           /\ history[t].before = 0
           /\ history[t].after = 0

\* C18 without the log line
DecodeFailureStops ==
    \A t \in Tasks :
        history[t].outcome = "decode_failed"
        => /\ \A c \in TaskCalls(t) : c.tool = "dwebp"
           /\ ~history[t].converted
           /\ history[t].before = 0
           /\ history[t].after = 0
           /\ local[t].pc = "returned"

\* two different supported files of the run with the same target
SharedTarget(t, u) ==
    /\ t # u
    /\ Extension(t.name) \in SupportedExtensions
    /\ Extension(u.name) \in SupportedExtensions
    /\ JxlFilename(t) = JxlFilename(u)

(* C20: with force-overwrite off, of two files that share a target (a.jpg   *)
(* and a.PNG, both a.jxl) at most one is converted in a run, whatever the   *)
(* threads do; so with delete-originals the two sources are never both      *)
(* deleted for the one output.                                              *)
C20_OneConversionPerTarget ==
    ~arguments.force_overwrite
    => \A t, u \in Tasks :
         SharedTarget(t, u)
         => /\ ~(history[t].converted /\ history[u].converted)
            /\ ~(FullPath(t) \notin DOMAIN disk /\ FullPath(u) \notin DOMAIN disk)

\* C20 for a pool of one thread
OneConversionPerTargetSequentially ==
    arguments.jobs = 1 => C20_OneConversionPerTarget

\* the pool threads inside the with block of print_thread_safe
InsidePrint == {w \in DOMAIN printer : printer[w].pc \in {"print", "exit"}}

\* at most one thread is inside the print, and the semaphore is taken
\* exactly while one is
C19_OneInside ==
    /\ Cardinality(InsidePrint) <= 1
    /\ print_lock = 1 - Cardinality(InsidePrint)

\* the thread that leaves the with block gives the semaphore back, whether
\* print raised or not
C19_ExitStep ==
    \A w \in DOMAIN printer :
        (printer[w].pc = "exit" /\ printer'[w].pc = "out")
        => print_lock' = print_lock + 1

(* C19: at most one pool thread is inside the print of print_thread_safe; *)
(* the semaphore is released after every print, also when print raised;    *)
(* and a thread waiting for the semaphore obtains it in the end.           *)
C19_PrintGate ==
    /\ []C19_OneInside
    /\ [][C19_ExitStep]_vars
    /\ \A w \in PoolThreads :
         (w \in DOMAIN printer /\ printer[w].pc = "acquire")
         ~> (w \in DOMAIN printer /\ printer[w].pc = "print")

C19_Witness ==
    /\ Cardinality(DOMAIN printer) >= 2
    /\ printer[1].pc = "acquire"
    /\ printer[2].pc = "exit"
    /\ printer[2].raised
    /\ printer[1].calls >= 2
    /\ print_lock = 0

====
